---- MODULE Spec2Model ----
(***************************************************************************)
(* Weighing tickets (Romaneio) of the farm-management application: the     *)
(* settlement calculation of Romaneio.save, the ticket form and the        *)
(* create / edit views that call it, and the reference data it reads       *)
(* (TabelaClassificacao, TaxaArmazem).                                     *)
(*                                                                         *)
(* Decimal values are records [c, e] standing for c * 10^(-e), kept        *)
(* normalised (no trailing zero in c while e > 0), so that equality of     *)
(* records is numeric equality, as == is on Python's Decimal.              *)
(***************************************************************************)
EXTENDS Integers, Sequences, FiniteSets, TLC

(***************************************************************************)
(* Decimal arithmetic                                                      *)
(***************************************************************************)

RECURSIVE Pow10(_)
Pow10(n) == IF n <= 0 THEN 1 ELSE 10 * Pow10(n - 1)

RECURSIVE Norm(_, _)
Norm(c, e) ==
    IF e > 0 /\ c % 10 = 0 THEN Norm(c \div 10, e - 1) ELSE [c |-> c, e |-> e]

\* Decimal('c * 10^-e')
Dec(c, e) == Norm(c, e)

\* Python's None, where a decimal attribute may hold it.
None == [c |-> 0, e |-> -1]

IsNone(x) == x.e = -1

Zero == Dec(0, 0)

\* the coefficient of a at scale e (e >= a.e)
Coef(a, e) == a.c * Pow10(e - a.e)

MaxOf(x, y) == IF x >= y THEN x ELSE y

DAdd(a, b) ==
    LET e == MaxOf(a.e, b.e) IN Norm(Coef(a, e) + Coef(b, e), e)

DSub(a, b) ==
    LET e == MaxOf(a.e, b.e) IN Norm(Coef(a, e) - Coef(b, e), e)

DMul(a, b) == Norm(a.c * b.c, a.e + b.e)

\* x / Decimal('100'): exact, two more decimal places
DDiv100(a) == Norm(a.c, a.e + 2)

DGt(a, b) ==
    LET e == MaxOf(a.e, b.e) IN Coef(a, e) > Coef(b, e)

\* Python truthiness of a decimal attribute: None and 0 are falsy.
Truthy(x) == ~IsNone(x) /\ x.c # 0

\* Decimal(str(x or 0))
OrZero(x) == IF Truthy(x) THEN x ELSE Zero

(***************************************************************************)
(* Reference data                                                          *)
(***************************************************************************)

Empresas == {"e1", "e2"}

\* the tenants whose users send ticket requests
Usuarios == {"e1"}

\* Plantio rows (production cycles); the model never changes them.
Plantios == {"p1", "p2"}

PlantioEmpresa(p) == IF p = "p1" THEN "e1" ELSE "e2"

\* Plantio.cultura, as the user typed it
PlantioCultura(p) == IF p = "p1" THEN "Soja" ELSE "soja"

\* the case folding of cultura__iexact
Lower(s) ==
    CASE s = "Soja" -> "soja"
      [] s = "SOJA" -> "soja"
      [] s = "Milho" -> "milho"
      [] OTHER -> s

\* TabelaClassificacao rows an administrator may register
TabelaSoja ==
    [empresa |-> "e1", cultura |-> "SOJA",
     padrao_umidade |-> Dec(12, 0), padrao_impureza |-> Dec(1, 0),
     padrao_avariado |-> Dec(0, 0), taxa_secagem |-> Dec(2, 0)]

TabelaMilho ==
    [empresa |-> "e1", cultura |-> "Milho",
     padrao_umidade |-> Dec(13, 0), padrao_impureza |-> Dec(2, 0),
     padrao_avariado |-> Dec(1, 0), taxa_secagem |-> Dec(0, 0)]

TabelaOutra ==
    [empresa |-> "e2", cultura |-> "Soja",
     padrao_umidade |-> Dec(18, 0), padrao_impureza |-> Dec(5, 1),
     padrao_avariado |-> Dec(1, 0), taxa_secagem |-> Dec(1, 0)]

TabelaVals == {TabelaSoja, TabelaMilho, TabelaOutra}

\* a row with a negative taxa_secagem: the column has no validator
TabelaTaxaNegativa ==
    [empresa |-> "e1", cultura |-> "Soja",
     padrao_umidade |-> Dec(14, 0), padrao_impureza |-> Dec(1, 0),
     padrao_avariado |-> Dec(0, 0), taxa_secagem |-> Dec(-5, 0)]

\* TaxaArmazem rows: the one warehouse, of tenant e1
Armazens == {"a1"}

ArmazemEmpresa(a) == "e1"

\* TaxaArmazem.quebra_tecnica values a user may enter
QuebraVals == {Dec(2, 0)}

(***************************************************************************)
(* State                                                                   *)
(***************************************************************************)

VARIABLES
    tabelas,    \* the TabelaClassificacao rows, in primary-key order
    armazens,   \* TaxaArmazem: warehouse id -> quebra_tecnica (None: no row)
    db,         \* the stored Romaneio row (NoRow: none)
    obj,        \* the Romaneio instance of the last request, as save left it
    req,        \* the last request: its kind, the instance it handed to save, and
                \* whether that instance repeats the inputs of the request before
    typed,      \* the deduction fields whose stored value a user typed
    edits,      \* the number of edits of the stored ticket
    linhas,     \* the Romaneio table served by concurrent requests: pk -> row
    pedidos,    \* the request each handler is serving and how far it got: the row
                \* it loaded (antes), the posted form, the instance handed to
                \* save (pre), the
                \* instance as the calculation left it (inst)
    fixacoes    \* the Fixacao rows and the ContaReceber rows made for them

vars == <<tabelas, armazens, db, obj, req, typed, edits, linhas, pedidos, fixacoes>>

NoRow == [exists |-> FALSE]

NoReq == [kind |-> "none"]

\* the primary keys of the Romaneio table
Pks == {1, 2}

\* the request handlers (threads or processes) of the server
Handlers == {"h1", "h2"}

\* no Fixacao and no ContaReceber
SemFixacoes == [rows |-> {}, contas |-> {}]

\* a handler serving no request
Ocioso == [pc |-> "idle"]

(***************************************************************************)
(* Romaneio                                                                *)
(***************************************************************************)

\* Romaneio.peso_carga
peso_carga(r) == DSub(OrZero(r.peso_bruto), OrZero(r.peso_tara))

\* Romaneio.peso_descontos
peso_descontos(r) ==
    IF IsNone(r.peso_liquido) THEN Zero
    ELSE DSub(peso_carga(r), DAdd(r.peso_liquido, r.peso_quebra_tecnica))

\* mutant: the default moisture standard is 13.00
PadraoDefaultUmidade13 ==
    [padrao_umidade |-> Dec(1300, 2), padrao_impureza |-> Dec(100, 2),
     padrao_avariado |-> Dec(0, 2), taxa_secagem |-> Dec(0, 2)]

\* the hardcoded default standard of Romaneio.save
PadraoDefault ==
    [padrao_umidade |-> Dec(1400, 2), padrao_impureza |-> Dec(100, 2),
     padrao_avariado |-> Dec(0, 2), taxa_secagem |-> Dec(0, 2)]

RECURSIVE FirstMatchQualquerEmpresa(_, _, _)
\* mutant: the lookup does not filter by empresa
FirstMatchQualquerEmpresa(tabs, empresa, cultura) ==
    IF tabs = << >> THEN << >>
    ELSE IF Lower(Head(tabs).cultura) = Lower(cultura)
         THEN << Head(tabs) >>
         ELSE FirstMatchQualquerEmpresa(Tail(tabs), empresa, cultura)

RECURSIVE FirstMatch(_, _, _)
\* TabelaClassificacao.objects.filter(empresa=.., cultura__iexact=..).first()
FirstMatch(tabs, empresa, cultura) ==
    IF tabs = << >> THEN << >>
    ELSE IF Head(tabs).empresa = empresa /\ Lower(Head(tabs).cultura) = Lower(cultura)
         THEN << Head(tabs) >>
         ELSE FirstMatch(Tail(tabs), empresa, cultura)

\* mutant: a ticket without plantio takes the first standard of its tenant
PadraoPrimeiraDoTenant(r, tabs) ==
    LET doTenant == {i \in 1..Len(tabs) : tabs[i].empresa = r.empresa}
        m == IF r.plantio = "None"
             THEN IF doTenant = {} THEN << >>
                  ELSE << tabs[CHOOSE i \in doTenant : \A j \in doTenant : i <= j] >>
             ELSE FirstMatch(tabs, r.empresa, PlantioCultura(r.plantio))
    IN IF m = << >> THEN PadraoDefault
       ELSE [padrao_umidade |-> m[1].padrao_umidade,
             padrao_impureza |-> m[1].padrao_impureza,
             padrao_avariado |-> m[1].padrao_avariado,
             taxa_secagem |-> m[1].taxa_secagem]

\* the classification standard save uses for instance r
Padrao(r, tabs) ==
    IF r.plantio = "None" THEN PadraoDefault
    ELSE LET m == FirstMatch(tabs, r.empresa, PlantioCultura(r.plantio)) IN
         IF m = << >> THEN PadraoDefault
         ELSE [padrao_umidade |-> m[1].padrao_umidade,
               padrao_impureza |-> m[1].padrao_impureza,
               padrao_avariado |-> m[1].padrao_avariado,
               taxa_secagem |-> m[1].taxa_secagem]

\* load * (pct / 100)
Parcela(carga, pct) == DMul(carga, DDiv100(pct))

\* mutant: moisture below the standard is deducted like moisture above it
DescontoUmidadeDistancia(carga, umidade, p) ==
    IF DGt(umidade, p.padrao_umidade)
    THEN DAdd(Parcela(carga, DSub(umidade, p.padrao_umidade)),
              Parcela(carga, p.taxa_secagem))
    ELSE IF DGt(p.padrao_umidade, umidade)
    THEN DAdd(Parcela(carga, DSub(p.padrao_umidade, umidade)),
              Parcela(carga, p.taxa_secagem))
    ELSE Zero

\* mutant: the drying fee is left out
DescontoUmidadeSemTaxa(carga, umidade, p) ==
    IF DGt(umidade, p.padrao_umidade)
    THEN Parcela(carga, DSub(umidade, p.padrao_umidade))
    ELSE Zero

\* mutant: the drying fee is charged whether or not moisture exceeds the standard
DescontoUmidadeTaxaSempre(carga, umidade, p) ==
    IF DGt(umidade, p.padrao_umidade)
    THEN DAdd(Parcela(carga, DSub(umidade, p.padrao_umidade)),
              Parcela(carga, p.taxa_secagem))
    ELSE Parcela(carga, p.taxa_secagem)

\* the computed moisture deduction
DescontoUmidade(carga, umidade, p) ==
    IF DGt(umidade, p.padrao_umidade)
    THEN DAdd(Parcela(carga, DSub(umidade, p.padrao_umidade)),
              Parcela(carga, p.taxa_secagem))
    ELSE Zero

\* mutant: the standard is not subtracted
DescontoImpurezaSemPadrao(carga, impureza, p) ==
    IF DGt(impureza, p.padrao_impureza) THEN Parcela(carga, impureza) ELSE Zero

\* the computed impurity deduction
DescontoImpureza(carga, impureza, p) ==
    IF DGt(impureza, p.padrao_impureza)
    THEN Parcela(carga, DSub(impureza, p.padrao_impureza))
    ELSE Zero

\* mutant: the impurity standard is used for damaged grain
DescontoAvariadoPadraoImpureza(carga, avariado, p) ==
    IF DGt(avariado, p.padrao_impureza)
    THEN Parcela(carga, DSub(avariado, p.padrao_impureza))
    ELSE Zero

\* the computed damaged-grain deduction
DescontoAvariado(carga, avariado, p) ==
    IF DGt(avariado, p.padrao_avariado)
    THEN Parcela(carga, DSub(avariado, p.padrao_avariado))
    ELSE Zero

\* mutant: only None counts as not provided, a manual 0 is kept
PriorizarZeroManual(manual, calculado) ==
    IF IsNone(manual) THEN calculado ELSE manual

\* mutant: the field is never filled with the computed value
PriorizarSemCalculo(manual, calculado) == manual

\* mutant: the manual value is added to the computed one
PriorizarSoma(manual, calculado) ==
    IF ~Truthy(manual) THEN calculado ELSE DAdd(manual, calculado)

\* manual value if there is one, else the computed value
Priorizar(manual, calculado) ==
    IF ~Truthy(manual) THEN calculado ELSE manual

\* mutant: the weights and percentages coerced to 0 are assigned back
AplicarDescontosCoage(r, carga, p) ==
    [r EXCEPT
       !.peso_bruto = OrZero(@), !.peso_tara = OrZero(@),
       !.umidade_percentual = OrZero(@),
       !.impureza_percentual = OrZero(@),
       !.avariado_percentual = OrZero(@),
       !.desconto_kg_umidade =
           Priorizar(r.desconto_kg_umidade,
                     DescontoUmidade(carga, OrZero(r.umidade_percentual), p)),
       !.desconto_kg_impureza =
           Priorizar(r.desconto_kg_impureza,
                     DescontoImpureza(carga, OrZero(r.impureza_percentual), p)),
       !.desconto_kg_avariado =
           Priorizar(r.desconto_kg_avariado,
                     DescontoAvariado(carga, OrZero(r.avariado_percentual), p))]

\* the three deduction fields, as save assigns them
AplicarDescontos(r, carga, p) ==
    [r EXCEPT
       !.desconto_kg_umidade =
           Priorizar(r.desconto_kg_umidade,
                     DescontoUmidade(carga, OrZero(r.umidade_percentual), p)),
       !.desconto_kg_impureza =
           Priorizar(r.desconto_kg_impureza,
                     DescontoImpureza(carga, OrZero(r.impureza_percentual), p)),
       !.desconto_kg_avariado =
           Priorizar(r.desconto_kg_avariado,
                     DescontoAvariado(carga, OrZero(r.avariado_percentual), p))]

\* mutant: the damage deduction is left out of the total
TotalDescontosSemAvariado(r) == DAdd(r.desconto_kg_umidade, r.desconto_kg_impureza)

\* mutant: the total is accumulated (+=) on the instance's previous total
TotalDescontosAcumulado(r) ==
    DAdd(r.total_descontos_kg,
         DAdd(DAdd(r.desconto_kg_umidade, r.desconto_kg_impureza),
              r.desconto_kg_avariado))

\* the total of the three deduction fields of the instance
TotalDescontos(r) ==
    DAdd(DAdd(r.desconto_kg_umidade, r.desconto_kg_impureza), r.desconto_kg_avariado)

\* mutant: the shrinkage is taken on the load weight
QuebraTecnicaSobreCarga(r, arms, pos) ==
    IF r.armazem_terceiro # "None"
    THEN DMul(peso_carga(r), DDiv100(OrZero(arms[r.armazem_terceiro])))
    ELSE Zero

\* quebra_tec: the technical shrinkage on the post-classification weight
QuebraTecnica(r, arms, pos) ==
    IF r.armazem_terceiro # "None"
    THEN DMul(pos, DDiv100(OrZero(arms[r.armazem_terceiro])))
    ELSE Zero

\* mutant: the else branch that resets the field is missing
CampoQuebraSemElse(r, quebra_tec) ==
    IF r.armazem_terceiro # "None" THEN quebra_tec ELSE r.peso_quebra_tecnica

\* the value save assigns to the field peso_quebra_tecnica
CampoQuebra(r, quebra_tec) ==
    IF r.armazem_terceiro # "None" THEN quebra_tec ELSE Zero

\* mutant: the net weight is clamped at 0
PesoLiquidoNaoNegativo(pos, quebra_tec) ==
    IF DSub(pos, quebra_tec).c < 0 THEN Zero ELSE DSub(pos, quebra_tec)

\* the value save assigns to the field peso_liquido
PesoLiquido(pos, quebra_tec) == DSub(pos, quebra_tec)

\* mutant: a negative load weight is clamped at 0
CargaSaveNaoNegativa(r) ==
    IF DSub(OrZero(r.peso_bruto), OrZero(r.peso_tara)).c < 0 THEN Zero
    ELSE DSub(OrZero(r.peso_bruto), OrZero(r.peso_tara))

\* mutant: the operands are swapped
CargaSaveInvertida(r) == DSub(OrZero(r.peso_tara), OrZero(r.peso_bruto))

\* the load weight save computes
CargaSave(r) == DSub(OrZero(r.peso_bruto), OrZero(r.peso_tara))

\* Romaneio.save: the instance as the calculation leaves it
Save(r, tabs, arms) ==
    LET carga == CargaSave(r)
        p     == Padrao(r, tabs)
        r1    == AplicarDescontos(r, carga, p)
        r2    == [r1 EXCEPT !.total_descontos_kg = TotalDescontos(r1)]
        pos   == DSub(carga, r2.total_descontos_kg)
        quebra_tec == QuebraTecnica(r2, arms, pos)
    IN [r2 EXCEPT !.peso_quebra_tecnica = CampoQuebra(r2, quebra_tec),
                  !.peso_liquido = PesoLiquido(pos, quebra_tec)]

(***************************************************************************)
(* Storage: a DecimalField column keeps decimal_places places              *)
(***************************************************************************)

\* n / d rounded to the nearest integer, ties to even (d > 0)
DivHalfEven(n, d) ==
    LET q == n \div d
        r == n % d
    IN IF 2 * r < d THEN q
       ELSE IF 2 * r > d THEN q + 1
       ELSE IF q % 2 = 0 THEN q ELSE q + 1

\* value.quantize(Decimal(1).scaleb(-places))
Quantize(x, places) ==
    IF IsNone(x) \/ x.e <= places THEN x
    ELSE Norm(DivHalfEven(x.c, Pow10(x.e - places)), places)

\* the row written for instance r
Stored(r) ==
    [r EXCEPT !.peso_bruto = Quantize(r.peso_bruto, 0),
              !.peso_tara = Quantize(r.peso_tara, 0),
              !.umidade_percentual = Quantize(r.umidade_percentual, 2),
              !.impureza_percentual = Quantize(r.impureza_percentual, 2),
              !.avariado_percentual = Quantize(r.avariado_percentual, 2),
              !.desconto_kg_umidade = Quantize(r.desconto_kg_umidade, 2),
              !.desconto_kg_impureza = Quantize(r.desconto_kg_impureza, 2),
              !.desconto_kg_avariado = Quantize(r.desconto_kg_avariado, 2),
              !.total_descontos_kg = Quantize(r.total_descontos_kg, 2),
              !.peso_quebra_tecnica = Quantize(r.peso_quebra_tecnica, 0),
              !.peso_liquido = Quantize(r.peso_liquido, 2)]

(***************************************************************************)
(* The ticket form and the views                                           *)
(***************************************************************************)

MaxTabelas == 1

MaxEdits == 2

BrutoVals == {Dec(1000, 0), Dec(10000, 0)}
TaraVals == {Dec(2000, 0)}
UmidadeVals == {Dec(1400, 2), Dec(1800, 2)}
ImpurezaVals == {Dec(100, 2), Dec(200, 2)}
AvariadoVals == {Dec(0, 2), Dec(100, 2)}
ManualVals == {Dec(0, 2), Dec(10000, 2)}

Categorias == {"desconto_kg_umidade", "desconto_kg_impureza", "desconto_kg_avariado"}

\* RomaneioForm.__init__: the choices of the two foreign keys for a tenant
PlantioChoices(u) == {p \in Plantios : PlantioEmpresa(p) = u}

ArmazemChoices(u, arms) ==
    {"None"} \cup {a \in Armazens : ArmazemEmpresa(a) = u /\ ~IsNone(arms[a])}

\* RomaneioForm.Meta.fields, with the values a valid form may hold in each
FieldVals(field, u, arms) ==
    CASE field = "plantio" -> PlantioChoices(u)
      [] field = "peso_bruto" -> BrutoVals
      [] field = "peso_tara" -> TaraVals
      [] field = "umidade_percentual" -> UmidadeVals
      [] field = "impureza_percentual" -> ImpurezaVals
      [] field = "avariado_percentual" -> AvariadoVals
      [] field \in Categorias -> ManualVals
      [] field = "armazem_terceiro" -> ArmazemChoices(u, arms)

FormFields ==
    {"plantio", "peso_bruto", "peso_tara", "umidade_percentual",
     "impureza_percentual", "avariado_percentual", "armazem_terceiro"} \cup Categorias

\* the valid forms of a tenant
Forms(u, arms) ==
    [plantio : PlantioChoices(u),
     peso_bruto : BrutoVals, peso_tara : TaraVals,
     umidade_percentual : UmidadeVals, impureza_percentual : ImpurezaVals,
     avariado_percentual : AvariadoVals,
     desconto_kg_umidade : ManualVals, desconto_kg_impureza : ManualVals,
     desconto_kg_avariado : ManualVals,
     armazem_terceiro : ArmazemChoices(u, arms)]

\* form.save(commit=False) on a new instance: the form's fields, the model's defaults
NewInstance(f, u) ==
    [exists |-> TRUE, empresa |-> u, plantio |-> f.plantio,
     peso_bruto |-> f.peso_bruto, peso_tara |-> f.peso_tara,
     umidade_percentual |-> f.umidade_percentual,
     impureza_percentual |-> f.impureza_percentual,
     avariado_percentual |-> f.avariado_percentual,
     desconto_kg_umidade |-> f.desconto_kg_umidade,
     desconto_kg_impureza |-> f.desconto_kg_impureza,
     desconto_kg_avariado |-> f.desconto_kg_avariado,
     total_descontos_kg |-> Zero,
     armazem_terceiro |-> f.armazem_terceiro,
     peso_quebra_tecnica |-> Zero,
     peso_liquido |-> None]

\* mutant: a deduction field posted as 0 leaves the loaded value in place
ApplyFormZeroMantem(r, f) ==
    [r EXCEPT !.plantio = f.plantio,
              !.peso_bruto = f.peso_bruto, !.peso_tara = f.peso_tara,
              !.umidade_percentual = f.umidade_percentual,
              !.impureza_percentual = f.impureza_percentual,
              !.avariado_percentual = f.avariado_percentual,
              !.desconto_kg_umidade =
                  IF Truthy(f.desconto_kg_umidade) THEN f.desconto_kg_umidade ELSE @,
              !.desconto_kg_impureza =
                  IF Truthy(f.desconto_kg_impureza) THEN f.desconto_kg_impureza ELSE @,
              !.desconto_kg_avariado =
                  IF Truthy(f.desconto_kg_avariado) THEN f.desconto_kg_avariado ELSE @,
              !.armazem_terceiro = f.armazem_terceiro]

\* the form's fields written over a loaded instance
ApplyForm(r, f) ==
    [r EXCEPT !.plantio = f.plantio,
              !.peso_bruto = f.peso_bruto, !.peso_tara = f.peso_tara,
              !.umidade_percentual = f.umidade_percentual,
              !.impureza_percentual = f.impureza_percentual,
              !.avariado_percentual = f.avariado_percentual,
              !.desconto_kg_umidade = f.desconto_kg_umidade,
              !.desconto_kg_impureza = f.desconto_kg_impureza,
              !.desconto_kg_avariado = f.desconto_kg_avariado,
              !.armazem_terceiro = f.armazem_terceiro]

\* the edit form as rendered for a stored row: every field holds the stored value
Prefill(r) ==
    [plantio |-> r.plantio,
     peso_bruto |-> r.peso_bruto, peso_tara |-> r.peso_tara,
     umidade_percentual |-> r.umidade_percentual,
     impureza_percentual |-> r.impureza_percentual,
     avariado_percentual |-> r.avariado_percentual,
     desconto_kg_umidade |-> r.desconto_kg_umidade,
     desconto_kg_impureza |-> r.desconto_kg_impureza,
     desconto_kg_avariado |-> r.desconto_kg_avariado,
     armazem_terceiro |-> r.armazem_terceiro]

\* the two instances hold the same tenant, raw inputs, overrides and references
SameInputs(a, b) ==
    /\ a.empresa = b.empresa
    /\ Prefill(a) = Prefill(b)

\* mutant: the save clears the classification table it read
RomaneioCreateApagaTabelas(u, f) ==
    /\ ~db.exists
    /\ LET pre == NewInstance(f, u)
           new == Save(pre, tabelas, armazens)
       IN /\ obj' = new
          /\ db' = Stored(new)
          /\ req' = [kind |-> "create", pre |-> pre, repeat |-> FALSE]
    /\ typed' = {c \in Categorias : Truthy(f[c])}
    /\ edits' = 0
    /\ tabelas' = << >>
    /\ UNCHANGED <<armazens, linhas, pedidos, fixacoes>>

\* romaneio_create: a valid POST by a user of tenant u (the model follows
\* one ticket: a new one is created once the one before is deleted)
RomaneioCreate(u, f) ==
    /\ ~db.exists
    /\ LET pre == NewInstance(f, u)
           new == Save(pre, tabelas, armazens)
       IN /\ obj' = new
          /\ db' = Stored(new)
          /\ req' = [kind |-> "create", pre |-> pre, repeat |-> FALSE]
    /\ typed' = {c \in Categorias : Truthy(f[c])}
    /\ edits' = 0
    /\ UNCHANGED <<tabelas, armazens>>
    /\ UNCHANGED <<linhas, pedidos, fixacoes>>

\* romaneio_edit: a valid POST by a user of tenant u, who changed one field of
\* the rendered form to value v (possibly the value it held)
RomaneioEdit(u, field, v) ==
    /\ db.exists
    /\ db.empresa = u
    /\ edits < MaxEdits
    /\ edits' = edits + 1
    /\ LET f   == [Prefill(db) EXCEPT ![field] = v]
           pre == ApplyForm(db, f)
           new == Save(pre, tabelas, armazens)
       IN /\ obj' = new
          /\ db' = Stored(new)
          /\ req' = [kind |-> "edit", pre |-> pre,
                     repeat |-> req.kind # "none" /\ SameInputs(req.pre, pre)]
    /\ typed' = IF field \in Categorias
                THEN IF Truthy(v) THEN typed \cup {field} ELSE typed \ {field}
                ELSE typed
    /\ UNCHANGED <<tabelas, armazens>>
    /\ UNCHANGED <<linhas, pedidos, fixacoes>>

\* romaneio_delete
RomaneioDelete(u) ==
    /\ db.exists
    /\ db.empresa = u
    /\ db' = NoRow
    /\ obj' = NoRow
    /\ req' = NoReq
    /\ typed' = {}
    /\ edits' = 0
    /\ UNCHANGED <<tabelas, armazens>>
    /\ UNCHANGED <<linhas, pedidos, fixacoes>>

\* armazem_create / armazem_edit: warehouse a gets rate q
ArmazemSave(a, q) ==
    /\ armazens[a] # q
    /\ armazens' = [armazens EXCEPT ![a] = q]
    /\ obj' = NoRow
    /\ req' = NoReq
    /\ UNCHANGED <<tabelas, db, typed, edits>>
    /\ UNCHANGED <<linhas, pedidos, fixacoes>>

\* armazem_delete: the ticket's reference is set to NULL by the database
ArmazemDelete(a) ==
    /\ ~IsNone(armazens[a])
    /\ armazens' = [armazens EXCEPT ![a] = None]
    /\ db' = IF db.exists /\ db.armazem_terceiro = a
             THEN [db EXCEPT !.armazem_terceiro = "None"] ELSE db
    /\ obj' = NoRow
    /\ req' = NoReq
    /\ UNCHANGED <<tabelas, typed, edits>>
    /\ UNCHANGED <<linhas, pedidos, fixacoes>>

\* the admin site adds a TabelaClassificacao row
TabelaAdd(t) ==
    /\ Len(tabelas) < MaxTabelas
    /\ \A i \in 1..Len(tabelas) : tabelas[i] # t
    /\ tabelas' = Append(tabelas, t)
    /\ obj' = NoRow
    /\ req' = NoReq
    /\ UNCHANGED <<armazens, db, typed, edits>>
    /\ UNCHANGED <<linhas, pedidos, fixacoes>>

\* the admin site deletes the i-th TabelaClassificacao row
TabelaDelete(i) ==
    /\ i \in 1..Len(tabelas)
    /\ tabelas' = SubSeq(tabelas, 1, i - 1) \o SubSeq(tabelas, i + 1, Len(tabelas))
    /\ obj' = NoRow
    /\ req' = NoReq
    /\ UNCHANGED <<armazens, db, typed, edits>>
    /\ UNCHANGED <<linhas, pedidos, fixacoes>>

Init ==
    /\ tabelas = << >>
    /\ armazens = [a \in Armazens |-> None]
    /\ db = NoRow
    /\ obj = NoRow
    /\ req = NoReq
    /\ typed = {}
    /\ edits = 0
    /\ linhas = [k \in Pks |-> NoRow]
    /\ pedidos = [h \in Handlers |-> Ocioso]
    /\ fixacoes = SemFixacoes

Next ==
    \/ \E u \in Usuarios : \E f \in Forms(u, armazens) : RomaneioCreate(u, f)
    \/ \E u \in Usuarios : \E field \in FormFields :
          \E v \in FieldVals(field, u, armazens) : RomaneioEdit(u, field, v)
    \/ \E u \in Usuarios : RomaneioDelete(u)
    \/ \E a \in Armazens : \E q \in QuebraVals : ArmazemSave(a, q)
    \/ \E a \in Armazens : ArmazemDelete(a)
    \/ \E t \in TabelaVals : TabelaAdd(t)
    \/ \E i \in 1..MaxTabelas : TabelaDelete(i)

Spec == Init /\ [][Next]_vars

(***************************************************************************)
(* Romaneio.save called on a newly constructed instance, whatever its      *)
(* attributes hold (None included) and whatever reference data exists      *)
(***************************************************************************)

SaveBrutoVals == {None, Dec(1000, 0), Dec(2050, 0), Dec(10000, 0)}
SaveTaraVals == {None, Dec(2000, 0)}
SaveUmidadeVals == {None, Dec(1200, 2), Dec(1400, 2), Dec(1800, 2), Dec(15000, 2)}
SaveImpurezaVals == {Dec(50, 2), Dec(100, 2), Dec(200, 2)}
SaveAvariadoVals == {Dec(-500, 2), Dec(0, 2), Dec(100, 2)}
SaveManualUmidade == {None, Dec(0, 2), Dec(10000, 2)}
SaveManualImpureza == {Dec(0, 2), Dec(5000, 2)}
SaveManualAvariado == {Dec(0, 2), Dec(2500, 2)}

\* the sequences of distinct TabelaClassificacao rows of length at most n
RECURSIVE TabelaSeqs(_)
TabelaSeqs(n) ==
    IF n = 0 THEN {<< >>}
    ELSE LET shorter == TabelaSeqs(n - 1) IN
         shorter \cup
         {Append(sq, t) : <<sq, t>> \in
             {x \in shorter \X TabelaVals :
                 \A i \in 1..Len(x[1]) : x[1][i] # x[2]}}

\* Romaneio(...): the instances a caller may construct
Instances(arms) ==
    {r \in [exists : {TRUE}, empresa : Empresas, plantio : {"None"} \cup Plantios,
            peso_bruto : SaveBrutoVals, peso_tara : SaveTaraVals,
            umidade_percentual : SaveUmidadeVals,
            impureza_percentual : SaveImpurezaVals,
            avariado_percentual : SaveAvariadoVals,
            desconto_kg_umidade : SaveManualUmidade,
            desconto_kg_impureza : SaveManualImpureza,
            desconto_kg_avariado : SaveManualAvariado,
            total_descontos_kg : {Zero},
            armazem_terceiro : {"None"} \cup Armazens,
            peso_quebra_tecnica : {Zero},
            peso_liquido : {None}] :
        /\ r.plantio # "None" => PlantioEmpresa(r.plantio) = r.empresa
        /\ r.armazem_terceiro # "None" =>
              /\ ~IsNone(arms[r.armazem_terceiro])
              /\ ArmazemEmpresa(r.armazem_terceiro) = r.empresa}

\* a NOT NULL column of the row would be NULL: the INSERT fails
NotNullViolation(r) ==
    \/ IsNone(r.peso_bruto) \/ IsNone(r.peso_tara)
    \/ IsNone(r.umidade_percentual) \/ IsNone(r.impureza_percentual)
    \/ IsNone(r.avariado_percentual)

\* the exception instance.save() raises for the instance the calculation left
SaveErro(r) == IF NotNullViolation(r) THEN "IntegrityError" ELSE "None"

InitSave ==
    /\ tabelas \in TabelaSeqs(MaxTabelas) \cup {<<TabelaTaxaNegativa>>}
    /\ armazens \in [Armazens -> QuebraVals \cup {None}]
    /\ db = NoRow
    /\ obj = NoRow
    /\ req \in [kind : {"new"}, pre : Instances(armazens), repeat : {FALSE}]
    /\ typed = {}
    /\ edits = 0
    /\ linhas = [k \in Pks |-> NoRow]
    /\ pedidos = [h \in Handlers |-> Ocioso]
    /\ fixacoes = SemFixacoes

\* instance.save() on the constructed instance
SaveCall ==
    /\ req.kind = "new"
    /\ LET new == Save(req.pre, tabelas, armazens)
       IN /\ obj' = new
          /\ db' = IF NotNullViolation(new) THEN db ELSE Stored(new)
    /\ req' = [kind |-> "save", pre |-> req.pre, repeat |-> FALSE,
               erro |-> SaveErro(Save(req.pre, tabelas, armazens))]
    /\ typed' = {c \in Categorias : Truthy(req.pre[c])}
    /\ UNCHANGED <<tabelas, armazens, edits>>
    /\ UNCHANGED <<linhas, pedidos, fixacoes>>

NextSave == SaveCall

SpecSave == InitSave /\ [][NextSave]_vars

(***************************************************************************)
(* The views as the server runs them: each handler serves one request in   *)
(* steps (the query that loads the ticket, the form and the calculation of *)
(* save, the write of super().save()), interleaved with the other handler  *)
(***************************************************************************)

QuantidadeVals == {Dec(100, 0)}
PrecoVals == {Dec(12050, 2)}

\* the kinds of request that begin with get_object_or_404
KindsPk == {"edit", "detail", "delete"}

\* mutant: the ticket is looked up by pk alone
VisivelSemEmpresa(row, u) == row.exists

\* get_object_or_404(Romaneio, pk=pk, empresa=empresa) finds the row
Visivel(row, u) == row.exists /\ row.empresa = u

\* mutant: the write is an update of every ticket of the tenant
AlvosDoTenant(pk, inst, lin) ==
    {pk} \cup {k \in Pks : lin[k].exists /\ lin[k].empresa = inst.empresa}

\* the rows super().save() writes: the one row of the instance's pk
Alvos(pk, inst, lin) == {pk}

\* mutant: the write updates the derived columns only
LinhaGravadaSoDerivados(atual, inst) ==
    IF atual.exists
    THEN [atual EXCEPT !.desconto_kg_umidade = Stored(inst).desconto_kg_umidade,
                       !.desconto_kg_impureza = Stored(inst).desconto_kg_impureza,
                       !.desconto_kg_avariado = Stored(inst).desconto_kg_avariado,
                       !.total_descontos_kg = Stored(inst).total_descontos_kg,
                       !.peso_quebra_tecnica = Stored(inst).peso_quebra_tecnica,
                       !.peso_liquido = Stored(inst).peso_liquido]
    ELSE Stored(inst)

\* the row after super().save(): every column is written from the instance
\* (an UPDATE, or an INSERT when no row has the pk)
LinhaGravada(atual, inst) == Stored(inst)

\* the forms posted to romaneio_create
FormsNovos(u, arms) ==
    {f \in Forms(u, arms) :
        /\ f.peso_bruto = Dec(10000, 0)
        /\ f.impureza_percentual = Dec(100, 2)
        /\ f.avariado_percentual = Dec(0, 2)
        /\ f.desconto_kg_umidade = Dec(0, 2)
        /\ f.desconto_kg_impureza = Dec(0, 2)
        /\ f.desconto_kg_avariado = Dec(0, 2)}

\* the fields a user changes in the rendered edit form
CamposEditados == {"umidade_percentual", "desconto_kg_umidade", "armazem_terceiro"}

\* the tickets the table may hold when the requests arrive: rows written by
\* romaneio_create
LinhasIniciais(u, tabs, arms) ==
    {Stored(Save(NewInstance(f, u), tabs, arms)) :
        f \in {g \in FormsNovos(u, arms) : g.umidade_percentual = Dec(1800, 2)}}

\* the pk an INSERT gets: one that no row and no request in flight holds
PksLivres(h, lin, ped) ==
    {k \in Pks :
        /\ ~lin[k].exists
        /\ \A o \in Handlers \ {h} :
              ped[o].pc \in {"carregado", "calculado"} => ped[o].pk # k}

\* romaneio_edit, romaneio_detail, romaneio_delete: get_empresa and
\* get_object_or_404; romaneio_detail then renders the ticket
Carregar(h, kind, u, pk) ==
    /\ pedidos[h].pc = "idle"
    /\ pedidos' = [pedidos EXCEPT ![h] =
          IF ~Visivel(linhas[pk], u)
          THEN [pc |-> "done", kind |-> kind, u |-> u, pk |-> pk, resposta |-> "404"]
          ELSE IF kind = "detail"
          THEN [pc |-> "done", kind |-> kind, u |-> u, pk |-> pk,
                inst |-> linhas[pk], resposta |-> "200"]
          ELSE [pc |-> "carregado", kind |-> kind, u |-> u, pk |-> pk,
                inst |-> linhas[pk]]]
    /\ UNCHANGED <<tabelas, armazens, db, obj, req, typed, edits, linhas, fixacoes>>

\* romaneio_edit: the posted form (the rendered one with one field changed to
\* v) is valid and written over the loaded instance; save runs its
\* calculation on it
EditCalcular(h, field, v) ==
    /\ pedidos[h].pc = "carregado"
    /\ pedidos[h].kind = "edit"
    /\ v \in FieldVals(field, pedidos[h].u, armazens)
    /\ LET form == [Prefill(pedidos[h].inst) EXCEPT ![field] = v]
           pre == ApplyForm(pedidos[h].inst, form)
       IN pedidos' = [pedidos EXCEPT ![h] =
             [pc |-> "calculado", kind |-> "edit", u |-> pedidos[h].u,
              pk |-> pedidos[h].pk, antes |-> pedidos[h].inst,
              form |-> form, pre |-> pre,
              inst |-> Save(pre, tabelas, armazens)]]
    /\ UNCHANGED <<tabelas, armazens, db, obj, req, typed, edits, linhas, fixacoes>>

\* romaneio_create: the posted form is valid, the new instance gets the
\* user's tenant and save runs its calculation on it
CreateCalcular(h, u, f) ==
    /\ pedidos[h].pc = "idle"
    /\ PksLivres(h, linhas, pedidos) # {}
    /\ LET pre == NewInstance(f, u)
       IN pedidos' = [pedidos EXCEPT ![h] =
             [pc |-> "calculado", kind |-> "create", u |-> u, pk |-> 0,
              antes |-> NoRow, form |-> f, pre |-> pre,
              inst |-> Save(pre, tabelas, armazens)]]
    /\ UNCHANGED <<tabelas, armazens, db, obj, req, typed, edits, linhas, fixacoes>>

\* super().save() of Romaneio.save, and the redirect
Gravar(h) ==
    /\ pedidos[h].pc = "calculado"
    /\ LET livres == PksLivres(h, linhas, pedidos)
           pk == IF pedidos[h].kind = "edit" THEN pedidos[h].pk
                 ELSE IF livres = {} THEN 0
                 ELSE CHOOSE k \in livres : \A j \in livres : k <= j
       IN /\ pk # 0
          /\ linhas' = [k \in Pks |->
                IF k \in Alvos(pk, pedidos[h].inst, linhas)
                THEN LinhaGravada(linhas[k], pedidos[h].inst) ELSE linhas[k]]
          /\ pedidos' = [pedidos EXCEPT ![h] =
                [pc |-> "done", kind |-> pedidos[h].kind, u |-> pedidos[h].u, pk |-> pk,
                 antes |-> pedidos[h].antes, form |-> pedidos[h].form,
                 pre |-> pedidos[h].pre,
                 inst |-> pedidos[h].inst, resposta |-> "302"]]
    /\ UNCHANGED <<tabelas, armazens, db, obj, req, typed, edits, fixacoes>>

\* Fixacao.save of a new Fixacao (id: the handler that creates it): valor_total
\* is computed, the row inserted and a ContaReceber created for it
FixacaoSave(fx, id, u, pk, quantidade, preco) ==
    [rows |-> fx.rows \cup
                 {[id |-> id, romaneio |-> pk, empresa |-> u, quantidade |-> quantidade,
                   preco |-> preco,
                   valor_total |-> Quantize(DMul(quantidade, preco), 2)]},
     contas |-> fx.contas \cup
                 {[fixacao_origem |-> id, empresa |-> u,
                   valor_total |-> Quantize(DMul(quantidade, preco), 2),
                   status |-> "PENDENTE"]}]

\* the Fixacao rows of ticket pk are deleted with it (on_delete=CASCADE) and
\* their ContaReceber rows lose the reference (on_delete=SET_NULL)
FixacoesSemRomaneio(fx, pk) ==
    LET apagadas == {x.id : x \in {y \in fx.rows : y.romaneio = pk}}
    IN [rows |-> {x \in fx.rows : x.romaneio # pk},
        contas |-> {IF c.fixacao_origem \in apagadas
                    THEN [c EXCEPT !.fixacao_origem = "None"] ELSE c : c \in fx.contas}]

\* romaneio_delete: romaneio.delete(), which also deletes the Fixacao rows of
\* the ticket (on_delete=CASCADE), and the redirect
Apagar(h) ==
    /\ pedidos[h].pc = "carregado"
    /\ pedidos[h].kind = "delete"
    /\ linhas' = [linhas EXCEPT ![pedidos[h].pk] = NoRow]
    /\ fixacoes' = FixacoesSemRomaneio(fixacoes, pedidos[h].pk)
    /\ pedidos' = [pedidos EXCEPT ![h] =
          [pc |-> "done", kind |-> "delete", u |-> pedidos[h].u, pk |-> pedidos[h].pk,
           inst |-> pedidos[h].inst, resposta |-> "302"]]
    /\ UNCHANGED <<tabelas, armazens, db, obj, req, typed, edits>>

\* mutant: the fixed quantity is drawn from the net weight of the ticket
FixacaoCreateBaixaRomaneio(h, u, pk, quantidade, preco) ==
    /\ pedidos[h].pc = "idle"
    /\ IF Visivel(linhas[pk], u)
       THEN /\ fixacoes' = FixacaoSave(fixacoes, h, u, pk, quantidade, preco)
            /\ linhas' = [linhas EXCEPT ![pk].peso_liquido =
                              DSub(linhas[pk].peso_liquido, quantidade)]
            /\ pedidos' = [pedidos EXCEPT ![h] =
                  [pc |-> "done", kind |-> "fixacao", u |-> u, pk |-> pk,
                   resposta |-> "302"]]
       ELSE /\ pedidos' = [pedidos EXCEPT ![h] =
                  [pc |-> "done", kind |-> "fixacao", u |-> u, pk |-> pk,
                   resposta |-> "invalid"]]
            /\ UNCHANGED <<fixacoes, linhas>>
    /\ UNCHANGED <<tabelas, armazens, db, obj, req, typed, edits>>

\* fixacao_create: the form offers the tickets of the user's tenant;
\* Fixacao.save computes valor_total, inserts the row and creates its
\* ContaReceber
FixacaoCreate(h, u, pk, quantidade, preco) ==
    /\ pedidos[h].pc = "idle"
    /\ IF Visivel(linhas[pk], u)
       THEN /\ fixacoes' = FixacaoSave(fixacoes, h, u, pk, quantidade, preco)
            /\ pedidos' = [pedidos EXCEPT ![h] =
                  [pc |-> "done", kind |-> "fixacao", u |-> u, pk |-> pk,
                   resposta |-> "302"]]
       ELSE /\ pedidos' = [pedidos EXCEPT ![h] =
                  [pc |-> "done", kind |-> "fixacao", u |-> u, pk |-> pk,
                   resposta |-> "invalid"]]
            /\ UNCHANGED fixacoes
    /\ UNCHANGED <<tabelas, armazens, db, obj, req, typed, edits, linhas>>

InitPedidos ==
    /\ tabelas = <<TabelaSoja>>
    /\ armazens \in [Armazens -> QuebraVals]
    /\ db = NoRow
    /\ obj = NoRow
    /\ req = NoReq
    /\ typed = {}
    /\ edits = 0
    /\ linhas \in {l \in [Pks -> {NoRow} \cup UNION {LinhasIniciais(u, tabelas, armazens) :
                                                    u \in Empresas}] :
                     /\ l[1].exists /\ l[1].empresa = "e1"
                     /\ l[2].exists => l[2].armazem_terceiro = "None"}
    /\ pedidos = [h \in Handlers |-> Ocioso]
    /\ fixacoes = SemFixacoes

NextPedidos ==
    \/ \E h \in Handlers : \E kind \in KindsPk : \E u \in Empresas : \E pk \in Pks :
          Carregar(h, kind, u, pk)
    \/ \E h \in Handlers : \E field \in CamposEditados :
          \E v \in UNION {FieldVals(field, u, armazens) : u \in Empresas} :
             EditCalcular(h, field, v)
    \/ \E h \in Handlers : \E u \in Empresas : \E f \in FormsNovos(u, armazens) :
          CreateCalcular(h, u, f)
    \/ \E h \in Handlers : Gravar(h)
    \/ \E h \in Handlers : Apagar(h)
    \/ \E h \in Handlers : \E u \in Empresas : \E pk \in Pks :
          \E quantidade \in QuantidadeVals : \E preco \in PrecoVals :
             FixacaoCreate(h, u, pk, quantidade, preco)

SpecPedidos == InitPedidos /\ [][NextPedidos]_vars

(***************************************************************************)
(* Properties                                                              *)
(*                                                                         *)
(* While obj.exists, a save has just returned: req.pre is the instance it  *)
(* was handed, obj the instance it left, db the row it wrote, and tabelas  *)
(* and armazens the reference data it read.                                *)
(***************************************************************************)

\* a weight attribute, NULL read as 0
Kg(x) == IF IsNone(x) THEN Zero ELSE x

\* gross minus tare of instance r
Load(r) == DSub(Kg(r.peso_bruto), Kg(r.peso_tara))

\* the six derived fields of an instance or row
Derived(r) ==
    <<r.desconto_kg_umidade, r.desconto_kg_impureza, r.desconto_kg_avariado,
      r.total_descontos_kg, r.peso_quebra_tecnica, r.peso_liquido>>

\* instance r with no manual deduction
SemManual(r) ==
    [r EXCEPT !.desconto_kg_umidade = Zero, !.desconto_kg_impureza = Zero,
              !.desconto_kg_avariado = Zero]

\* C1: after every save, net weight = load weight - total deductions -
\* shrinkage weight, whether the deductions are manual or computed and with
\* or without a warehouse.
C1_NetWeight ==
    obj.exists =>
        obj.peso_liquido =
            DSub(DSub(Load(obj), obj.total_descontos_kg), obj.peso_quebra_tecnica)

\* C1 witness: a save with a warehouse, a typed moisture deduction and a
\* computed impurity deduction.
C1_Witness ==
    /\ obj.exists
    /\ obj.armazem_terceiro = "a1"
    /\ Truthy(obj.peso_quebra_tecnica)
    /\ "desconto_kg_umidade" \in typed
    /\ "desconto_kg_impureza" \notin typed
    /\ Truthy(obj.desconto_kg_impureza)

\* C2: after any sequence of saves and edits through the form in which no
\* user typed a manual deduction, the stored deductions, total, shrinkage and
\* net weight are those the calculation derives from the ticket's current
\* raw inputs.
C2_AlwaysRecomputed ==
    (obj.exists /\ typed = {}) =>
        Derived(db) = Derived(Stored(Save(SemManual(req.pre), tabelas, armazens)))

\* C3: a save that repeats the inputs (raw fields, overrides, references,
\* with the reference data unchanged) of the save before it leaves every
\* derived field as that save left it, on the instance and in the row.
C3_Idempotent ==
    [][(req.kind # "none" /\ req'.kind = "edit" /\ SameInputs(req.pre, req'.pre))
          => (Derived(obj') = Derived(obj) /\ Derived(db') = Derived(db))]_vars

\* C3 witness: an edit that repeated the inputs of the save before it, with
\* a warehouse and non-zero deductions.
C3_Witness ==
    /\ req.kind = "edit"
    /\ req.repeat
    /\ Truthy(obj.total_descontos_kg)
    /\ Truthy(obj.peso_quebra_tecnica)

\* none of the two weights and three measured percentages is NULL
NoNulls(r) ==
    /\ ~IsNone(r.peso_bruto) /\ ~IsNone(r.peso_tara)
    /\ ~IsNone(r.umidade_percentual) /\ ~IsNone(r.impureza_percentual)
    /\ ~IsNone(r.avariado_percentual)

\* load * ((moisture - standard) + fee) / 100 above the standard, else 0
EspUmidade(load, m, p) ==
    IF DGt(m, p.padrao_umidade)
    THEN DDiv100(DMul(load, DAdd(DSub(m, p.padrao_umidade), p.taxa_secagem)))
    ELSE Zero

\* load * (pct - standard) / 100 above the standard, else 0
EspExcesso(load, pct, padrao) ==
    IF DGt(pct, padrao) THEN DDiv100(DMul(load, DSub(pct, padrao))) ELSE Zero

\* the deduction of category c computed from the percentages of instance r
EspDesconto(c, r, p) ==
    CASE c = "desconto_kg_umidade" -> EspUmidade(Load(r), r.umidade_percentual, p)
      [] c = "desconto_kg_impureza" ->
            EspExcesso(Load(r), r.impureza_percentual, p.padrao_impureza)
      [] c = "desconto_kg_avariado" ->
            EspExcesso(Load(r), r.avariado_percentual, p.padrao_avariado)

\* post-classification weight * warehouse rate / 100, or 0 without warehouse
EspQuebra(r, arms, pos) ==
    IF r.armazem_terceiro = "None" THEN Zero
    ELSE DDiv100(DMul(pos, Kg(arms[r.armazem_terceiro])))

\* the sum of a set of at most two expected deductions plus a manual one
EspTotal(c, r, p) ==
    LET others == Categorias \ {c}
        d1 == CHOOSE d \in others : TRUE
        d2 == CHOOSE d \in others : d # d1
    IN DAdd(r[c], DAdd(EspDesconto(d1, r, p), EspDesconto(d2, r, p)))

\* C4: with a non-zero manual deduction for exactly one category, the stored
\* deduction of that category is the manual value, the other two are computed
\* from their percentages and thresholds, and total, shrinkage and net weight
\* derive from the overridden value.
C4_ManualPrecedence ==
    (obj.exists /\ NoNulls(req.pre)) =>
        \A c \in Categorias :
            (Truthy(req.pre[c]) /\ \A d \in Categorias \ {c} : ~Truthy(req.pre[d])) =>
                LET p     == Padrao(req.pre, tabelas)
                    total == EspTotal(c, req.pre, p)
                    pos   == DSub(Load(req.pre), total)
                    q     == EspQuebra(req.pre, armazens, pos)
                IN /\ obj[c] = req.pre[c]
                   /\ \A d \in Categorias \ {c} : obj[d] = EspDesconto(d, req.pre, p)
                   /\ obj.total_descontos_kg = total
                   /\ obj.peso_quebra_tecnica = q
                   /\ obj.peso_liquido = DSub(pos, q)

\* C4 witness: load 8000, moisture 18 against the default standard, manual
\* moisture deduction 100: stored 100 (not 320), net 7900.
C4_Witness ==
    /\ obj.exists
    /\ Load(req.pre) = Dec(8000, 0)
    /\ req.pre.umidade_percentual = Dec(18, 0)
    /\ req.pre.desconto_kg_umidade = Dec(100, 0)
    /\ ~Truthy(req.pre.desconto_kg_impureza)
    /\ ~Truthy(req.pre.desconto_kg_avariado)
    /\ Padrao(req.pre, tabelas) = PadraoDefault
    /\ obj.desconto_kg_umidade = Dec(100, 0)
    /\ obj.peso_liquido = Dec(7900, 0)

\* C5 as claimed: whenever moisture % > standard moisture %, the moisture
\* deduction is load * ((moisture - standard) + drying fee) / 100.
C5_MoistureFormula ==
    (obj.exists /\ NoNulls(req.pre)
       /\ DGt(req.pre.umidade_percentual, Padrao(req.pre, tabelas).padrao_umidade)) =>
        obj.desconto_kg_umidade =
            EspUmidade(Load(req.pre), req.pre.umidade_percentual,
                       Padrao(req.pre, tabelas))

\* C5 amended: when the moisture deduction field handed to save is null or
\* zero, the moisture deduction is load * ((moisture - standard) + drying fee)
\* / 100 if moisture % > standard moisture %, and 0 otherwise (the fee is
\* never charged on its own).
C5_MoistureFormulaNoManual ==
    (obj.exists /\ NoNulls(req.pre) /\ ~Truthy(req.pre.desconto_kg_umidade)) =>
        LET p == Padrao(req.pre, tabelas)
            m == req.pre.umidade_percentual
        IN IF DGt(m, p.padrao_umidade)
           THEN obj.desconto_kg_umidade =
                    DDiv100(DMul(Load(req.pre),
                                 DAdd(DSub(m, p.padrao_umidade), p.taxa_secagem)))
           ELSE obj.desconto_kg_umidade = Zero

\* C5 witness: load 8000, moisture 18, standard 12, fee 2 gives 640.
C5_Witness ==
    /\ obj.exists
    /\ Load(req.pre) = Dec(8000, 0)
    /\ req.pre.umidade_percentual = Dec(18, 0)
    /\ ~Truthy(req.pre.desconto_kg_umidade)
    /\ Padrao(req.pre, tabelas).padrao_umidade = Dec(12, 0)
    /\ Padrao(req.pre, tabelas).taxa_secagem = Dec(2, 0)
    /\ obj.desconto_kg_umidade = Dec(640, 0)

\* the measured percentage and the threshold of each category
Medido(c, r) ==
    CASE c = "desconto_kg_umidade" -> r.umidade_percentual
      [] c = "desconto_kg_impureza" -> r.impureza_percentual
      [] c = "desconto_kg_avariado" -> r.avariado_percentual

Limite(c, p) ==
    CASE c = "desconto_kg_umidade" -> p.padrao_umidade
      [] c = "desconto_kg_impureza" -> p.padrao_impureza
      [] c = "desconto_kg_avariado" -> p.padrao_avariado

\* C6 as claimed: after every save each deduction is 0 whenever its measured
\* percentage does not exceed its threshold.
C6_ZeroAtOrBelowThreshold ==
    (obj.exists /\ NoNulls(req.pre)) =>
        \A c \in Categorias :
            ~DGt(Medido(c, req.pre), Limite(c, Padrao(req.pre, tabelas))) =>
                obj[c] = Zero

\* C6 amended: after every save each deduction whose field was handed to save
\* null or zero is 0 whenever its measured percentage does not exceed its
\* threshold, the moisture deduction also when the drying fee is positive.
C6_ZeroAtOrBelowThresholdNoManual ==
    (obj.exists /\ NoNulls(req.pre)) =>
        \A c \in Categorias :
            (~Truthy(req.pre[c])
               /\ ~DGt(Medido(c, req.pre), Limite(c, Padrao(req.pre, tabelas)))) =>
                obj[c] = Zero

\* C6 witness: moisture equal to the standard 12 with a drying fee of 2, no
\* manual value: the moisture deduction is 0.
C6_Witness ==
    /\ obj.exists
    /\ Truthy(Load(req.pre))
    /\ req.pre.umidade_percentual = Dec(12, 0)
    /\ ~Truthy(req.pre.desconto_kg_umidade)
    /\ Padrao(req.pre, tabelas).padrao_umidade = Dec(12, 0)
    /\ Padrao(req.pre, tabelas).taxa_secagem = Dec(2, 0)
    /\ obj.desconto_kg_umidade = Zero

\* C7: with no manual impurity deduction, impurity % above the standard
\* gives load * (impurity - standard) / 100, and impurity % equal to the
\* standard gives 0.
C7_ImpurityFormula ==
    (obj.exists /\ NoNulls(req.pre) /\ ~Truthy(req.pre.desconto_kg_impureza)) =>
        LET std == Padrao(req.pre, tabelas).padrao_impureza
            imp == req.pre.impureza_percentual
        IN /\ DGt(imp, std) =>
                obj.desconto_kg_impureza = DDiv100(DMul(Load(req.pre), DSub(imp, std)))
           /\ imp = std => obj.desconto_kg_impureza = Zero

\* C7 witness: load 8000, impurity 2 against standard 1 gives 80.
C7_Witness ==
    /\ obj.exists
    /\ Load(req.pre) = Dec(8000, 0)
    /\ req.pre.impureza_percentual = Dec(2, 0)
    /\ ~Truthy(req.pre.desconto_kg_impureza)
    /\ Padrao(req.pre, tabelas).padrao_impureza = Dec(1, 0)
    /\ obj.desconto_kg_impureza = Dec(80, 0)

\* C8: with no manual damage deduction, damaged-grain % above the standard
\* gives load * (damage - standard) / 100; otherwise the deduction is 0.
C8_DamageFormula ==
    (obj.exists /\ NoNulls(req.pre) /\ ~Truthy(req.pre.desconto_kg_avariado)) =>
        LET std == Padrao(req.pre, tabelas).padrao_avariado
            av  == req.pre.avariado_percentual
        IN IF DGt(av, std)
           THEN obj.desconto_kg_avariado = DDiv100(DMul(Load(req.pre), DSub(av, std)))
           ELSE obj.desconto_kg_avariado = Zero

\* C8 witness: load 8000, damage 1 against standard 0 gives 80.
C8_Witness ==
    /\ obj.exists
    /\ Load(req.pre) = Dec(8000, 0)
    /\ req.pre.avariado_percentual = Dec(1, 0)
    /\ ~Truthy(req.pre.desconto_kg_avariado)
    /\ Padrao(req.pre, tabelas).padrao_avariado = Dec(0, 0)
    /\ obj.desconto_kg_avariado = Dec(80, 0)

\* a whole-kilogram weight as an integer, NULL read as 0
Val(x) == IF IsNone(x) THEN 0 ELSE x.c

\* C9: for non-negative gross >= tare (NULL read as 0), peso_carga, before
\* and after save, and the load weight the calculation used (net weight +
\* shrinkage + total deductions) equal gross - tare exactly.
C9_LoadWeight ==
    (req.kind # "none"
       /\ Val(req.pre.peso_bruto) >= Val(req.pre.peso_tara)
       /\ Val(req.pre.peso_tara) >= 0) =>
        LET load == Dec(Val(req.pre.peso_bruto) - Val(req.pre.peso_tara), 0)
        IN /\ peso_carga(req.pre) = load
           /\ obj.exists =>
                /\ peso_carga(obj) = load
                /\ DAdd(DAdd(obj.peso_liquido, obj.peso_quebra_tecnica),
                        obj.total_descontos_kg) = load

\* C9 witness: gross 10000 and no tare (NULL): the load weight is 10000.
C9_Witness ==
    /\ obj.exists
    /\ req.pre.peso_bruto = Dec(10000, 0)
    /\ IsNone(req.pre.peso_tara)
    /\ peso_carga(obj) = Dec(10000, 0)
    /\ Truthy(obj.total_descontos_kg)

\* C10: after every save, net weight never exceeds load weight.
C10_NetAtMostLoad ==
    obj.exists => ~DGt(obj.peso_liquido, Load(obj))

\* the deduction of category c: the manual value if there is a non-zero one,
\* else the one computed from the percentage
EspFinal(c, r, p) == IF Truthy(r[c]) THEN r[c] ELSE EspDesconto(c, r, p)

\* the sum of the three deductions of instance r
EspSoma(r, p) ==
    DAdd(DAdd(EspFinal("desconto_kg_umidade", r, p),
              EspFinal("desconto_kg_impureza", r, p)),
         EspFinal("desconto_kg_avariado", r, p))

\* load - total deductions - shrinkage of instance r
EspLiquido(r, p, arms) ==
    LET pos == DSub(Load(r), EspSoma(r, p)) IN DSub(pos, EspQuebra(r, arms, pos))

\* C11: with a warehouse, shrinkage = (load - total deductions) * rate / 100,
\* taken on the post-classification weight (manual overrides included), not
\* on the load weight; without a warehouse shrinkage is 0 and net weight is
\* the post-classification weight.
C11_ShrinkageAfterDeductions ==
    (obj.exists /\ NoNulls(req.pre)) =>
        LET pos == DSub(Load(req.pre), EspSoma(req.pre, Padrao(req.pre, tabelas)))
        IN IF req.pre.armazem_terceiro # "None"
           THEN /\ obj.peso_quebra_tecnica =
                      DDiv100(DMul(pos, Kg(armazens[req.pre.armazem_terceiro])))
                /\ obj.peso_liquido = DSub(pos, obj.peso_quebra_tecnica)
           ELSE /\ obj.peso_quebra_tecnica = Zero
                /\ obj.peso_liquido = pos

\* C11 witness: load 8000, moisture 18 against the default standard, warehouse
\* rate 2: post-classification 7680, shrinkage 153.6, net 7526.4.
C11_Witness ==
    /\ obj.exists
    /\ Load(req.pre) = Dec(8000, 0)
    /\ req.pre.armazem_terceiro = "a1"
    /\ armazens["a1"] = Dec(2, 0)
    /\ obj.total_descontos_kg = Dec(320, 0)
    /\ obj.peso_quebra_tecnica = Dec(1536, 1)
    /\ obj.peso_liquido = Dec(75264, 1)

\* the rows of tabelas of the tenant and crop (ignoring case) of instance r
Correspondentes(r, tabs) ==
    {i \in 1..Len(tabs) :
        /\ tabs[i].empresa = r.empresa
        /\ Lower(tabs[i].cultura) = Lower(PlantioCultura(r.plantio))}

\* the default standard (14.00, 1.00, 0.00, 0.00)
EspPadraoDefault ==
    [padrao_umidade |-> Dec(14, 0), padrao_impureza |-> Dec(1, 0),
     padrao_avariado |-> Zero, taxa_secagem |-> Zero]

\* the derived fields of obj are those the calculation gives with standard p
CalculadoCom(p) ==
    /\ \A c \in Categorias : obj[c] = EspFinal(c, req.pre, p)
    /\ obj.total_descontos_kg = EspSoma(req.pre, p)
    /\ obj.peso_liquido = EspLiquido(req.pre, p, armazens)

\* C12: when no classification standard exists for the ticket's crop and
\* tenant, save uses the default standard (14.00, 1.00, 0.00, 0.00), raises
\* no error and writes the row.
C12_DefaultStandard ==
    (req.kind = "save" /\ NoNulls(req.pre) /\ req.pre.plantio # "None"
        /\ Correspondentes(req.pre, tabelas) = {}) =>
        /\ req.erro = "None"
        /\ db.exists
        /\ CalculadoCom(EspPadraoDefault)

\* C12 witness: a ticket with a crop, only a standard of another crop in the
\* table, load 8000, moisture 18, impurity 0.5, damage 0, no warehouse:
\* moisture deduction 320, net 7680.
C12_Witness ==
    /\ req.kind = "save"
    /\ req.pre.plantio = "p1"
    /\ tabelas = <<TabelaMilho>>
    /\ Load(req.pre) = Dec(8000, 0)
    /\ req.pre.umidade_percentual = Dec(18, 0)
    /\ req.pre.impureza_percentual = Dec(5, 1)
    /\ req.pre.avariado_percentual = Zero
    /\ req.pre.armazem_terceiro = "None"
    /\ obj.desconto_kg_umidade = Dec(320, 0)
    /\ obj.peso_liquido = Dec(7680, 0)
    /\ db.peso_liquido = Dec(7680, 0)

\* the standard kept in row t of TabelaClassificacao
PadraoDe(t) ==
    [padrao_umidade |-> t.padrao_umidade, padrao_impureza |-> t.padrao_impureza,
     padrao_avariado |-> t.padrao_avariado, taxa_secagem |-> t.taxa_secagem]

\* C13: the standard a ticket with a crop is calculated with is that of a row
\* of its own tenant whose crop name equals the ticket's crop name ignoring
\* case (the default standard when there is none); the standard of another
\* tenant or crop is never used.
C13_StandardOfTenantAndCrop ==
    (obj.exists /\ NoNulls(req.pre) /\ req.pre.plantio # "None") =>
        IF Correspondentes(req.pre, tabelas) = {}
        THEN CalculadoCom(EspPadraoDefault)
        ELSE \E i \in Correspondentes(req.pre, tabelas) :
                CalculadoCom(PadraoDe(tabelas[i]))

\* C13 witness: a ticket of tenant e2 with crop "soja" calculated with the
\* row ("Soja", e2): impurity 2 against the standard 0.5 gives 1.5% of the load.
C13_Witness ==
    /\ obj.exists
    /\ req.pre.empresa = "e2"
    /\ req.pre.plantio = "p2"
    /\ tabelas = <<TabelaOutra>>
    /\ Load(req.pre) = Dec(8000, 0)
    /\ req.pre.impureza_percentual = Dec(2, 0)
    /\ ~Truthy(req.pre.desconto_kg_impureza)
    /\ obj.desconto_kg_impureza = Dec(120, 0)

\* C14: a manual deduction that is None or 0 counts as not provided: the
\* deduction of that category, on the instance and in the row, is the
\* computed value, also when the computed value is not 0.
C14_ZeroIsUnset ==
    (obj.exists /\ NoNulls(req.pre)) =>
        \A c \in Categorias :
            ~Truthy(req.pre[c]) =>
                LET d == EspDesconto(c, req.pre, Padrao(req.pre, tabelas))
                IN /\ obj[c] = d
                   /\ db.exists => db[c] = Quantize(d, 2)

\* C14 witness: moisture deduction handed in as None and impurity deduction
\* handed in as 0, both computed non-zero by the save.
C14_Witness ==
    /\ obj.exists
    /\ NoNulls(req.pre)
    /\ IsNone(req.pre.desconto_kg_umidade)
    /\ req.pre.desconto_kg_impureza = Zero
    /\ Truthy(obj.desconto_kg_umidade)
    /\ Truthy(obj.desconto_kg_impureza)
    /\ db.desconto_kg_impureza = obj.desconto_kg_impureza

\* C15: after every save the field total_descontos_kg of the ticket is the sum
\* of its three deduction fields, manual or computed.
C15_TotalIsSum ==
    obj.exists =>
        obj.total_descontos_kg =
            DAdd(DAdd(obj.desconto_kg_umidade, obj.desconto_kg_impureza),
                 obj.desconto_kg_avariado)

\* C15 witness: a manual moisture deduction, a computed impurity deduction and
\* a computed damage deduction, none of them 0.
C15_Witness ==
    /\ obj.exists
    /\ NoNulls(req.pre)
    /\ Truthy(req.pre.desconto_kg_umidade)
    /\ ~Truthy(req.pre.desconto_kg_impureza)
    /\ ~Truthy(req.pre.desconto_kg_avariado)
    /\ Truthy(obj.desconto_kg_impureza)
    /\ Truthy(obj.desconto_kg_avariado)

\* C16: the derived fields are persisted verbatim: each derived field of the
\* row written by save equals the value the calculation left on the instance
\* (a shrinkage of 153.6 is stored as 153.6).
C16_PersistedVerbatim ==
    (obj.exists /\ db.exists) => Derived(db) = Derived(obj)

\* C17: a negative load weight is neither rejected nor clamped: the row is
\* written and the deductions, total, shrinkage and net weight follow the same
\* formulas applied to the negative load weight.
C17_NegativeLoadPassedThrough ==
    (req.kind = "save" /\ NoNulls(req.pre) /\ Load(req.pre).c < 0) =>
        LET p == Padrao(req.pre, tabelas)
        IN /\ req.erro = "None"
           /\ db.exists
           /\ CalculadoCom(p)
           /\ obj.peso_quebra_tecnica =
                  EspQuebra(req.pre, armazens, DSub(Load(req.pre), EspSoma(req.pre, p)))

\* C17 witness: gross 1000, tare 2000, damage 1 against the standard 0, with
\* a warehouse: negative damage deduction, shrinkage and net weight.
C17_Witness ==
    /\ req.kind = "save"
    /\ Load(req.pre) = Dec(-1000, 0)
    /\ req.pre.armazem_terceiro = "a1"
    /\ ~Truthy(req.pre.desconto_kg_avariado)
    /\ obj.desconto_kg_avariado = Dec(-10, 0)
    /\ obj.peso_quebra_tecnica.c < 0
    /\ obj.peso_liquido.c < 0
    /\ db.exists

\* C18: the net weight is not clamped at 0: when the deductions plus the
\* shrinkage exceed the load weight, the instance holds, and the row keeps,
\* the negative value load - deductions - shrinkage.
C18_NetNotClamped ==
    (obj.exists /\ NoNulls(req.pre)) =>
        LET liquido == EspLiquido(req.pre, Padrao(req.pre, tabelas), armazens)
        IN liquido.c < 0 =>
              /\ obj.peso_liquido = liquido
              /\ db.exists
              /\ db.peso_liquido = Quantize(liquido, 2)

\* C18 witness: load 50 and a manual moisture deduction of 100: net -50.
C18_Witness ==
    /\ obj.exists
    /\ Load(req.pre) = Dec(50, 0)
    /\ req.pre.desconto_kg_umidade = Dec(100, 0)
    /\ obj.total_descontos_kg = Dec(100, 0)
    /\ obj.peso_quebra_tecnica = Zero
    /\ obj.peso_liquido = Dec(-50, 0)
    /\ db.exists
    /\ db.peso_liquido = Dec(-50, 0)

C20_MissingInputFails ==
    (req.kind = "save" /\ ~NoNulls(req.pre)) =>
        /\ req.erro # "None"
        /\ ~db.exists
        /\ Derived(obj) = Derived(req.pre)

\* handler h has finished a create or an edit: its save wrote the row
Salvou(h) ==
    /\ pedidos[h].pc = "done"
    /\ pedidos[h].kind \in {"create", "edit"}
    /\ pedidos[h].resposta = "302"

\* what the save of handler h writes when it runs alone
SaveSozinho(h) == Stored(Save(pedidos[h].pre, tabelas, armazens))

\* C21: when the handlers save different tickets, in any interleaving of
\* their steps, the row of each ticket is the one its own save produces
\* when it runs alone.
C21_ConcurrentSavesIndependent ==
    \A h \in Handlers :
        (Salvou(h) /\ \A o \in Handlers \ {h} :
                          pedidos[o].pc = "idle" \/ pedidos[o].pk # pedidos[h].pk)
            => linhas[pedidos[h].pk] = SaveSozinho(h)

\* C21 witness: both handlers finished an edit, of two different tickets of
\* the same tenant, and both rows changed their moisture deduction.
C21_Witness ==
    /\ Salvou("h1") /\ Salvou("h2")
    /\ pedidos["h1"].kind = "edit" /\ pedidos["h2"].kind = "edit"
    /\ pedidos["h1"].pk = 1 /\ pedidos["h2"].pk = 2
    /\ pedidos["h1"].u = pedidos["h2"].u
    /\ linhas[1].desconto_kg_umidade # linhas[2].desconto_kg_umidade

\* C22: a ticket save never creates, changes or deletes a TabelaClassificacao
\* or TaxaArmazem row: every step that leaves a saved instance leaves both
\* tables as they were.
C22_ReferenceDataReadOnly ==
    [][obj'.exists => (tabelas' = tabelas /\ armazens' = armazens)]_vars

\* C22 witness: a save that read a classification row and a warehouse rate.
C22_Witness ==
    /\ obj.exists
    /\ tabelas # << >>
    /\ Padrao(req.pre, tabelas) # PadraoDefault
    /\ obj.armazem_terceiro = "a1"
    /\ ~IsNone(armazens["a1"])
    /\ Truthy(obj.peso_quebra_tecnica)

\* C23: creating a Fixacao that points to a ticket leaves every field of
\* every ticket row unchanged: a step of a fixacao_create request does not
\* change the Romaneio table.
C23_FixacaoLeavesTicket ==
    [][\A h \in Handlers :
          (pedidos'[h] # pedidos[h] /\ pedidos'[h].kind = "fixacao")
              => linhas' = linhas]_vars

\* C23 witness: a Fixacao of 100 at 120.50 (valor_total 12050) exists for a
\* ticket that is still stored, with the ContaReceber made for it.
C23_Witness ==
    \E x \in fixacoes.rows :
        /\ linhas[x.romaneio].exists
        /\ linhas[x.romaneio].empresa = x.empresa
        /\ x.valor_total = Dec(12050, 0)
        /\ \E c \in fixacoes.contas : c.fixacao_origem = x.id

C29_TenantScoped ==
    [][\A h \in Handlers :
          pedidos'[h] # pedidos[h] =>
             /\ (/\ pedidos[h].pc = "idle"
                 /\ pedidos'[h].kind \in KindsPk
                 /\ linhas[pedidos'[h].pk].exists
                 /\ linhas[pedidos'[h].pk].empresa # pedidos'[h].u)
                   => /\ pedidos'[h].pc = "done"
                      /\ pedidos'[h].resposta = "404"
                      /\ linhas' = linhas
                      /\ fixacoes' = fixacoes
             /\ (/\ pedidos'[h].kind \in KindsPk
                 /\ ~(pedidos'[h].pc = "done" /\ pedidos'[h].resposta = "404"))
                   => pedidos'[h].inst.empresa = pedidos'[h].u
             /\ \A k \in Pks :
                   linhas'[k] # linhas[k] =>
                      /\ linhas[k].exists => linhas[k].empresa = pedidos'[h].u
                      /\ linhas'[k].exists => linhas'[k].empresa = pedidos'[h].u]_vars

\* C29 witness: a user of tenant e2 asked to delete the ticket of tenant e1,
\* got not-found and the ticket is still stored, and the other handler
\* created a ticket for a user of e2, stored with tenant e2.
C29_Witness ==
    \E h \in Handlers : \E o \in Handlers \ {h} :
        /\ pedidos[h].pc = "done"
        /\ pedidos[h].kind = "delete"
        /\ pedidos[h].u = "e2"
        /\ pedidos[h].pk = 1
        /\ pedidos[h].resposta = "404"
        /\ linhas[1].exists /\ linhas[1].empresa = "e1"
        /\ Salvou(o) /\ pedidos[o].kind = "create" /\ pedidos[o].u = "e2"
        /\ linhas[pedidos[o].pk].empresa = "e2"

\* the posted form of handler h as an instance of the edited ticket's tenant
Postado(h) ==
    [empresa |-> pedidos[h].antes.empresa,
     plantio |-> pedidos[h].form.plantio,
     peso_bruto |-> pedidos[h].form.peso_bruto,
     peso_tara |-> pedidos[h].form.peso_tara,
     umidade_percentual |-> pedidos[h].form.umidade_percentual,
     impureza_percentual |-> pedidos[h].form.impureza_percentual,
     avariado_percentual |-> pedidos[h].form.avariado_percentual]

\* C24: an edit posted with a deduction field at 0 has that deduction
\* recomputed by that save from the posted percentages and the standard,
\* whatever the row held for it before: on the instance, and in the row when
\* no other request wrote the ticket.
C24_ZeroRecomputesOnEdit ==
    \A h \in Handlers : \A c \in Categorias :
        (/\ pedidos[h].pc = "calculado" \/ Salvou(h)
         /\ pedidos[h].kind = "edit"
         /\ ~Truthy(pedidos[h].form[c])) =>
            LET d == EspDesconto(c, Postado(h), Padrao(Postado(h), tabelas))
            IN /\ pedidos[h].inst[c] = d
               /\ (Salvou(h) /\ \A o \in Handlers \ {h} :
                                   pedidos[o].pc = "idle" \/ pedidos[o].pk # pedidos[h].pk)
                     => linhas[pedidos[h].pk][c] = Quantize(d, 2)

\* C24 witness: the row held a typed moisture deduction of 100; the edit put
\* the field back to 0 and the row now holds the computed deduction.
C24_Witness ==
    \E h \in Handlers :
        /\ Salvou(h)
        /\ pedidos[h].kind = "edit"
        /\ pedidos[h].antes.desconto_kg_umidade = Dec(100, 0)
        /\ pedidos[h].form.desconto_kg_umidade = Zero
        /\ Truthy(pedidos[h].inst.desconto_kg_umidade)
        /\ pedidos[h].inst.desconto_kg_umidade # Dec(100, 0)
        /\ linhas[pedidos[h].pk].desconto_kg_umidade = pedidos[h].inst.desconto_kg_umidade

\* C25: a ticket whose plantio is null is calculated with the default
\* standard (14.00, 1.00, 0.00, 0.00), whichever classification standards
\* exist for its tenant.
C25_NoPlantioDefaultStandard ==
    (req.kind = "save" /\ NoNulls(req.pre) /\ req.pre.plantio = "None") =>
        /\ req.erro = "None"
        /\ db.exists
        /\ CalculadoCom(EspPadraoDefault)

\* C25 witness: a ticket without plantio was saved while its tenant has a
\* standard that would have given another moisture deduction.
C25_Witness ==
    /\ req.kind = "save" /\ NoNulls(req.pre) /\ req.pre.plantio = "None"
    /\ db.exists
    /\ tabelas # << >>
    /\ tabelas[1].empresa = req.pre.empresa
    /\ ~Truthy(req.pre.desconto_kg_umidade)
    /\ EspDesconto("desconto_kg_umidade", req.pre, PadraoDe(tabelas[1]))
          # obj.desconto_kg_umidade

\* the fields of a ticket that save reads and does not assign
CamposDeEntrada ==
    {"empresa", "plantio", "peso_bruto", "peso_tara", "umidade_percentual",
     "impureza_percentual", "avariado_percentual", "armazem_terceiro"}

\* C26: save assigns only the six derived fields: the tenant, the plantio,
\* gross and tare weight, the three measured percentages and the warehouse
\* reference of the instance are after save what they were before it, and
\* the row written holds them too.
C26_SaveKeepsInputs ==
    req.kind = "save" =>
        /\ \A c \in CamposDeEntrada : obj[c] = req.pre[c]
        /\ db.exists => \A c \in CamposDeEntrada : db[c] = req.pre[c]

\* C26 witness: a save that changed derived fields of the instance and wrote
\* the row.
C26_Witness ==
    /\ req.kind = "save"
    /\ db.exists
    /\ Derived(obj) # Derived(req.pre)
    /\ Truthy(obj.total_descontos_kg)
    /\ Truthy(obj.peso_quebra_tecnica)

\* C27: for every saved ticket the property peso_descontos (load - (net +
\* shrinkage)) equals total_descontos_kg, on the instance right after save
\* and on the row read back from storage.
C27_PesoDescontosIsTotal ==
    /\ (obj.exists /\ req.kind \in {"create", "edit"}) =>
          peso_descontos(obj) = obj.total_descontos_kg
    /\ db.exists => peso_descontos(db) = db.total_descontos_kg

\* the three measured percentages
Percentuais == {"umidade_percentual", "impureza_percentual", "avariado_percentual"}

\* the deduction field of a measured percentage
DescontoDe(campo) ==
    CASE campo = "umidade_percentual" -> "desconto_kg_umidade"
      [] campo = "impureza_percentual" -> "desconto_kg_impureza"
      [] campo = "avariado_percentual" -> "desconto_kg_avariado"

\* the values a caller may give a measured percentage
ValoresDe(campo) ==
    CASE campo = "umidade_percentual" -> SaveUmidadeVals \ {None}
      [] campo = "impureza_percentual" -> SaveImpurezaVals \ {None}
      [] campo = "avariado_percentual" -> SaveAvariadoVals \ {None}

\* the saved ticket is fresh, has all its inputs, a load weight >= 0, no
\* manual deduction and a warehouse rate (if any) between 0 and 100
CasoMonotonia ==
    /\ req.kind = "save" /\ NoNulls(req.pre)
    /\ Load(req.pre).c >= 0
    /\ \A c \in Categorias : ~Truthy(req.pre[c])
    /\ req.pre.armazem_terceiro # "None" =>
          /\ ~DGt(Zero, armazens[req.pre.armazem_terceiro])
          /\ ~DGt(armazens[req.pre.armazem_terceiro], Dec(100, 0))

\* every ticket equal to the saved one but for a higher value of one
\* percentage has, after save, a deduction of that category at least as large
\* and a net weight no greater, on the instance and in the row
MaiorPercentualMaiorDesconto ==
    \A campo \in Percentuais : \A v \in ValoresDe(campo) :
        DGt(v, req.pre[campo]) =>
            LET outro == Save([req.pre EXCEPT ![campo] = v], tabelas, armazens)
            IN /\ ~DGt(obj[DescontoDe(campo)], outro[DescontoDe(campo)])
               /\ ~DGt(outro.peso_liquido, obj.peso_liquido)
               /\ ~DGt(db[DescontoDe(campo)], Stored(outro)[DescontoDe(campo)])
               /\ ~DGt(Stored(outro).peso_liquido, db.peso_liquido)

====
